---- MODULE Spec2Model ----
(***************************************************************************)
(* Model of the tg-proxy serverless handlers that relay a photo to the     *)
(* Telegram Bot API sendPhoto endpoint:                                    *)
(*   - the URL/Base64 handler   (src/netlify/functions/send-photo.js)      *)
(*   - the raw-body handler     (src/unnamed/part_000)                     *)
(*   - the multipart handler    (src/unnamed/part_001)                     *)
(* One invocation is modelled: the handler runs up to its await of the     *)
(* outbound call, the upstream settles the call, the handler resumes and   *)
(* returns (or an exception escapes it).                                   *)
(***************************************************************************)
EXTENDS Integers, Sequences, FiniteSets, TLC

VARIABLES
  pc,          \* position of the invocation: idle, parsing, awaiting, done, crashed
  variant,     \* which handler was invoked
  event,       \* the Netlify event handed to the handler
  env,         \* process.env (BOT_TOKEN, CHAT_ID)
  outbound,    \* the axios.post calls made so far, in order
  response,    \* the value the handler returned
  fields,      \* parseMultipart: form fields collected by busboy.on("field")
  fileBuffer,  \* parseMultipart: fileBuffer
  filename,    \* parseMultipart: filename
  mimeType,    \* parseMultipart: mimeType
  parts,       \* parseMultipart: the file parts seen, each with its chunks array
  parse,       \* parseMultipart: state of the promise it returns
  settled      \* how the awaited axios.post settled

vars == <<pc, variant, event, env, outbound, response, fields, fileBuffer,
          filename, mimeType, parts, parse, settled>>

parserVars == <<fields, fileBuffer, filename, mimeType, parts, parse>>

-----------------------------------------------------------------------------
(* Bounds of the model *)

\* file parts in one multipart body
MaxParts == 2
\* data chunks busboy delivers for one file part
MaxChunks == 2

-----------------------------------------------------------------------------
(* JavaScript values: undefined, null, strings, numbers, booleans, objects *)

Undef == [t |-> "undefined", s |-> "", n |-> 0]
Null == [t |-> "null", s |-> "", n |-> 0]
Str(x) == [t |-> "string", s |-> x, n |-> 0]
Num(x) == [t |-> "number", s |-> "", n |-> x]
Bool(b) == [t |-> "boolean", s |-> "", n |-> IF b THEN 1 ELSE 0]
Obj(tag) == [t |-> "object", s |-> tag, n |-> 0]

\* ToBoolean, as applied by `!x`, `if (x)` and `x || y`
Truthy(v) ==
  CASE v.t = "string" -> v.s # ""
    [] v.t = "number" -> v.n # 0
    [] v.t = "boolean" -> v.n = 1
    [] v.t = "object" -> TRUE
    [] OTHER -> FALSE

\* a || b
Or(a, b) == IF Truthy(a) THEN a ELSE b

Digits == <<"0", "1", "2", "3", "4", "5", "6", "7", "8", "9">>

RECURSIVE NatToStr(_)
NatToStr(n) ==
  IF n < 10 THEN Digits[n + 1]
  ELSE NatToStr(n \div 10) \o Digits[(n % 10) + 1]

\* String(x) and template-literal interpolation
JSString(v) ==
  CASE v.t = "string" -> v.s
    [] v.t = "number" -> IF v.n < 0 THEN "-" \o NatToStr(0 - v.n) ELSE NatToStr(v.n)
    [] v.t = "boolean" -> IF v.n = 1 THEN "true" ELSE "false"
    [] v.t = "null" -> "null"
    [] v.t = "object" -> "[object Object]"
    [] OTHER -> "undefined"

\* JSON.stringify of an object literal: keys whose value is undefined are dropped
JSONStringify(obj) ==
  [k \in {x \in DOMAIN obj : obj[x].t # "undefined"} |-> obj[k]]

\* new Date().toISOString()
Timestamp == Str("<now>")

-----------------------------------------------------------------------------
(* Buffers: Buffer.from(text, "base64") and Buffer.from(text, "utf8").      *)
(* Text that is decoded is a sequence of one-character strings.            *)

B64Alphabet ==
  <<"A","B","C","D","E","F","G","H","I","J","K","L","M","N","O","P",
    "Q","R","S","T","U","V","W","X","Y","Z","a","b","c","d","e","f",
    "g","h","i","j","k","l","m","n","o","p","q","r","s","t","u","v",
    "w","x","y","z","0","1","2","3","4","5","6","7","8","9","+","/">>

IsB64Char(c) == \E i \in 1..64 : B64Alphabet[i] = c

Sextet(c) == (CHOOSE i \in 1..64 : B64Alphabet[i] = c) - 1

RECURSIVE DecodeSextets(_)
DecodeSextets(q) ==
  IF Len(q) < 2 THEN <<>>
  ELSE IF Len(q) = 2 THEN <<q[1] * 4 + (q[2] \div 16)>>
  ELSE IF Len(q) = 3 THEN
    <<q[1] * 4 + (q[2] \div 16), (q[2] % 16) * 16 + (q[3] \div 4)>>
  ELSE
    <<q[1] * 4 + (q[2] \div 16), (q[2] % 16) * 16 + (q[3] \div 4),
      (q[3] % 4) * 64 + q[4]>> \o DecodeSextets(SubSeq(q, 5, Len(q)))

\* Buffer.from(chars, "base64"): characters outside the alphabet are skipped
Base64Decode(chars) ==
  LET valid == SelectSeq(chars, IsB64Char)
  IN DecodeSextets([i \in 1..Len(valid) |-> Sextet(valid[i])])

\* the UTF-8 code of an ASCII character
CharCode(c) ==
  IF IsB64Char(c) THEN
    LET i == Sextet(c)
    IN  IF i < 26 THEN 65 + i
        ELSE IF i < 52 THEN 97 + (i - 26)
        ELSE IF i < 62 THEN 48 + (i - 52)
        ELSE IF i = 62 THEN 43 ELSE 47
  ELSE 33

\* Buffer.from(chars, "utf8")
Utf8Encode(chars) == [i \in 1..Len(chars) |-> CharCode(chars[i])]

-----------------------------------------------------------------------------
(* Responses, outbound calls and errors *)

NoResponse == [statusCode |-> 0, headers |-> <<>>, body |-> <<>>]

Response(statusCode, headers, body) ==
  [statusCode |-> statusCode, headers |-> headers, body |-> JSONStringify(body)]

\* a field appended to a FormData
FormField(name, value) ==
  [name |-> name, value |-> value, isFile |-> FALSE, bytes |-> <<>>,
   filename |-> "", contentType |-> ""]

FormFile(name, bytes, fname, ctype) ==
  [name |-> name, value |-> "", isFile |-> TRUE, bytes |-> bytes,
   filename |-> fname, contentType |-> ctype]

\* `https://api.telegram.org/bot${botToken}/sendPhoto`
TelegramApiUrl(botToken) ==
  "https://api.telegram.org/bot" \o JSString(botToken) \o "/sendPhoto"

JsonCall(url, payload, timeout) ==
  [url |-> url, kind |-> "json", payload |-> payload, form |-> <<>>,
   timeout |-> timeout]

FormCall(url, form, timeout) ==
  [url |-> url, kind |-> "multipart", payload |-> <<>>, form |-> form,
   timeout |-> timeout]

\* what an error thrown inside a handler's try block looks like to its catch
NoData == [t |-> "undefined", description |-> Undef]

ThrownError(name, message) ==
  [name |-> name, message |-> message, hasResponse |-> FALSE,
   hasRequest |-> FALSE, status |-> 0, data |-> NoData]

\* axios rejects: the upstream answered with an error status
AxiosResponseError(status, data) ==
  [name |-> "AxiosError",
   message |-> "Request failed with status code " \o NatToStr(status),
   hasResponse |-> TRUE, hasRequest |-> TRUE, status |-> status, data |-> data]

\* axios rejects: the request was sent and no response came back
AxiosNetworkError(message) ==
  [name |-> "AxiosError", message |-> message, hasResponse |-> FALSE,
   hasRequest |-> TRUE, status |-> 0, data |-> NoData]

\* what a handler run produces: it returned, it awaits the call, or it threw
Returned(resp) == [next |-> "done", response |-> resp, calls |-> <<>>]
Awaiting(call) == [next |-> "awaiting", response |-> NoResponse, calls |-> <<call>>]
Escaped == [next |-> "crashed", response |-> NoResponse, calls |-> <<>>]

-----------------------------------------------------------------------------
(* The upstream (Telegram sendPhoto behind axios.post) *)

\* axios timeout of the JSON (URL) submission
UrlTimeout == 10000
\* axios timeout of a buffer upload
UploadTimeout == 20000

UpstreamStatuses == {400, 401, 403, 404, 500}

\* error.response.data: a JSON object with or without a description, the
\* empty string of a body-less response, or the null of a literal null body
ErrorDatas ==
  { [t |-> "object", description |-> Str("chat not found")],
    [t |-> "object", description |-> Undef],
    [t |-> "string", description |-> Undef],
    [t |-> "null", description |-> Undef] }

\* response.data of a 2xx answer: the result envelope, whole or malformed
SuccessDatas ==
  { [kind |-> "full", message_id |-> Num(42), chat_id |-> Num(123)],
    [kind |-> "noChat", message_id |-> Num(42), chat_id |-> Undef],
    [kind |-> "noResult", message_id |-> Undef, chat_id |-> Undef] }

NetworkMessages == {"timeout of 20000ms exceeded"}

NoSuccess == [kind |-> "none", message_id |-> Undef, chat_id |-> Undef]

\* the call has not settled
NoOutcome == [ok |-> FALSE, data |-> NoSuccess, error |-> ThrownError("", "")]

Outcomes ==
  { [ok |-> TRUE, data |-> d, error |-> ThrownError("", "")] : d \in SuccessDatas }
  \cup { [ok |-> FALSE, data |-> NoSuccess, error |-> AxiosResponseError(st, d)] :
           st \in UpstreamStatuses, d \in ErrorDatas }
  \cup { [ok |-> FALSE, data |-> NoSuccess, error |-> AxiosNetworkError(m)] :
           m \in NetworkMessages }

\* process.env
Envs == { [BOT_TOKEN |-> Undef, CHAT_ID |-> Undef],
          [BOT_TOKEN |-> Str("ENVTOKEN"), CHAT_ID |-> Str("-100200")] }

Methods == {"OPTIONS", "GET", "POST"}

-----------------------------------------------------------------------------
(* URL/Base64 handler: src/netlify/functions/send-photo.js *)

SendPhotoHeaders ==
  [AccessControlAllowOrigin |-> "*",
   AccessControlAllowMethods |-> "GET, POST, OPTIONS",
   AccessControlAllowHeaders |-> "Content-Type, Authorization",
   ContentType |-> "application/json"]

\* body.photoBase64: absent, a string (its characters) or another JSON type
NoBase64 == [t |-> "undefined", chars |-> <<>>]
Base64Text(chars) == [t |-> "string", chars |-> chars]
Base64Values ==
  { NoBase64, Base64Text(<<"!", "!">>), Base64Text(<<"Q", "U", "J", "D">>),
    [t |-> "number", chars |-> <<>>] }

Base64Truthy(b) == b.t = "number" \/ (b.t = "string" /\ b.chars # <<>>)

EmptyBody ==
  [botToken |-> Undef, chatId |-> Undef, photoUrl |-> Undef, photo |-> Undef,
   photoBase64 |-> NoBase64, fileName |-> Undef, mimeType |-> Undef,
   caption |-> Undef, parseMode |-> Undef, threadId |-> Undef]

BotTokens == {Undef, Str("T")}
ChatIds == {Undef, Str("123")}
PhotoUrls == {Undef, Str(""), Str("https://x/y.png")}
PhotoAliases == {Undef, Str("https://x/z.png")}
FileNames == {Undef, Str("chart.png")}
MimeTypes == {Undef}
Captions == {Undef, Null, Str(""), Str("  "), Str("hi")}
ParseModes == {Undef, Null, Str("HTML")}
ThreadIds == {Undef, Null, Str(" "), Num(7), Str("7")}

BodyObjects ==
  [botToken : BotTokens, chatId : ChatIds, photoUrl : PhotoUrls,
   photo : PhotoAliases, photoBase64 : Base64Values, fileName : FileNames,
   mimeType : MimeTypes, caption : Captions, parseMode : ParseModes,
   threadId : ThreadIds]

\* event.body: no body, text that is not JSON, the text null, or a JSON object
SendPhotoEvents ==
  { [httpMethod |-> m, body |-> [text |-> k, obj |-> EmptyBody]] :
      m \in Methods, k \in {"absent", "invalid", "null"} }
  \cup { [httpMethod |-> "POST", body |-> [text |-> "object", obj |-> o]] :
           o \in BodyObjects }

SendPhotoExample == Obj("example")

\* mutant: the chat id is checked before the bot token
SendPhotoValidateChatFirst(botToken, chatId, photoUrl, photoBase64) ==
  IF ~Truthy(chatId) THEN "chatId"
  ELSE IF ~Truthy(botToken) THEN "botToken"
  ELSE IF ~Truthy(photoUrl) /\ ~Base64Truthy(photoBase64) THEN "image"
  ELSE "ok"

SendPhotoValidate(botToken, chatId, photoUrl, photoBase64) ==
  IF ~Truthy(botToken) THEN "botToken"
  ELSE IF ~Truthy(chatId) THEN "chatId"
  ELSE IF ~Truthy(photoUrl) /\ ~Base64Truthy(photoBase64) THEN "image"
  ELSE "ok"

\* the JSON payload of the URL path
SendPhotoPayload(chatId, photoUrl, caption, parseMode, threadId) ==
  LET payload == [chat_id |-> chatId, photo |-> photoUrl, caption |-> caption,
                  message_thread_id |-> threadId]
      kept == [k \in {x \in DOMAIN payload : payload[x].t # "undefined"} |->
                 payload[k]]
  IN  IF Truthy(parseMode)
      THEN [k \in DOMAIN kept \cup {"parse_mode"} |->
              IF k = "parse_mode" THEN parseMode ELSE kept[k]]
      ELSE kept

\* the FormData of the base64 path
SendPhotoForm(chatId, buffer, fileName, contentType, caption, parseMode, threadId) ==
  <<FormField("chat_id", JSString(chatId)),
    FormFile("photo", buffer, JSString(fileName), JSString(contentType))>>
  \o (IF Truthy(caption) THEN <<FormField("caption", JSString(caption))>> ELSE <<>>)
  \o (IF Truthy(parseMode) THEN <<FormField("parse_mode", JSString(parseMode))>>
      ELSE <<>>)
  \o (IF threadId.t # "undefined" /\ threadId.t # "null"
      THEN <<FormField("message_thread_id", JSString(threadId))>> ELSE <<>>)

\* mutant: a base64 payload is preferred to the URL
SendPhotoPathBase64First(photoUrl, photoBase64) ==
  IF Base64Truthy(photoBase64) THEN "base64" ELSE "url"

\* if (photoUrl): which submission path is taken
SendPhotoPath(photoUrl, photoBase64) ==
  IF Truthy(photoUrl) THEN "url" ELSE "base64"

\* mutant: the catch block without its error.request branch
SendPhotoCatchNoRequestBranch(error) ==
  IF error.hasResponse /\ error.data.t \notin {"null", "undefined"} THEN
    Returned(Response(error.status, SendPhotoHeaders,
                      [success |-> Bool(FALSE),
                       error |-> Str(JSString(Or(error.data.description,
                                                 Str("Telegram API error")))),
                       timestamp |-> Timestamp]))
  ELSE
    Returned(Response(500, SendPhotoHeaders,
                      [success |-> Bool(FALSE), error |-> Str("Internal server error"),
                       timestamp |-> Timestamp]))

\* the catch block
SendPhotoCatch(error) ==
  IF error.hasResponse THEN
    IF error.data.t \in {"null", "undefined"} THEN Escaped
    ELSE
      LET description == error.data.description
          errorMessage ==
            IF error.status = 400 THEN "Bad Request: " \o JSString(description)
            ELSE IF error.status = 401 THEN "Unauthorized: Invalid bot token"
            ELSE IF error.status = 403
              THEN "Forbidden: Bot was blocked by user or kicked from chat"
            ELSE IF error.status = 404 THEN "Not Found: Chat not found"
            ELSE JSString(Or(description, Str("Telegram API error")))
      IN  Returned(Response(error.status, SendPhotoHeaders,
                            [success |-> Bool(FALSE), error |-> Str(errorMessage),
                             timestamp |-> Timestamp]))
  ELSE
    LET statusCode == IF ~error.hasRequest /\ error.name = "SyntaxError"
                      THEN 400 ELSE 500
        errorMessage ==
          IF error.hasRequest THEN "Network error: Unable to reach Telegram API"
          ELSE IF error.name = "SyntaxError" THEN "Invalid JSON in request body"
          ELSE "Internal server error"
    IN  Returned(Response(statusCode, SendPhotoHeaders,
                          [success |-> Bool(FALSE), error |-> Str(errorMessage),
                           timestamp |-> Timestamp]))

\* the try block up to its await, for a parsed body
SendPhotoSubmit(body, e) ==
  LET botToken == Or(body.botToken, e.BOT_TOKEN)
      chatId == Or(body.chatId, e.CHAT_ID)
      photoUrl == Or(body.photoUrl, body.photo)
      photoBase64 == body.photoBase64
      fileName == Or(body.fileName, Str("photo.png"))
      contentType == Or(body.mimeType, Str("image/png"))
      check == SendPhotoValidate(botToken, chatId, photoUrl, photoBase64)
  IN  CASE check = "botToken" ->
             Returned(Response(400, SendPhotoHeaders,
               [error |-> Str("Bot token is required (either in request body or BOT_TOKEN environment variable)"),
                example |-> SendPhotoExample]))
        [] check = "chatId" ->
             Returned(Response(400, SendPhotoHeaders,
               [error |-> Str("Chat ID is required (either in request body or CHAT_ID environment variable)"),
                example |-> SendPhotoExample]))
        [] check = "image" ->
             Returned(Response(400, SendPhotoHeaders,
               [error |-> Str("Either photoUrl (recommended) or photoBase64 is required"),
                example |-> SendPhotoExample]))
        [] OTHER ->
             IF SendPhotoPath(photoUrl, photoBase64) = "url" THEN
               Awaiting(JsonCall(TelegramApiUrl(botToken),
                          SendPhotoPayload(chatId, photoUrl, body.caption,
                                           body.parseMode, body.threadId),
                          UrlTimeout))
             ELSE IF photoBase64.t # "string" THEN
               Returned(Response(400, SendPhotoHeaders,
                 [success |-> Bool(FALSE),
                  error |-> Str("Invalid photoBase64. Must be a valid base64 string."),
                  timestamp |-> Timestamp]))
             ELSE
               Awaiting(FormCall(TelegramApiUrl(botToken),
                          SendPhotoForm(chatId, Base64Decode(photoBase64.chars),
                                        fileName, contentType, body.caption,
                                        body.parseMode, body.threadId),
                          UploadTimeout))

\* exports.handler, from its entry to its first await or return
SendPhotoRun(ev, e) ==
  IF ev.httpMethod = "OPTIONS" THEN
    Returned(Response(200, SendPhotoHeaders, [message |-> Str("OK")]))
  ELSE IF ev.httpMethod # "POST" THEN
    Returned(Response(405, SendPhotoHeaders,
                      [error |-> Str("Method not allowed. Use POST.")]))
  ELSE IF ev.body.text = "invalid" THEN
    SendPhotoCatch(ThrownError("SyntaxError", "Unexpected token in JSON"))
  ELSE IF ev.body.text = "null" THEN
    SendPhotoCatch(ThrownError("TypeError", "Cannot read properties of null"))
  ELSE SendPhotoSubmit(ev.body.obj, e)

\* mutant: a failed call is sent again
SendPhotoSettleRetry(call, outcome) ==
  IF ~outcome.ok THEN Awaiting(call)
  ELSE Returned(Response(200, SendPhotoHeaders,
         [success |-> Bool(TRUE), messageId |-> outcome.data.message_id,
          chatId |-> outcome.data.chat_id, timestamp |-> Timestamp]))

\* exports.handler after the await: the success return, or the catch block
SendPhotoSettle(call, outcome) ==
  IF ~outcome.ok THEN SendPhotoCatch(outcome.error)
  ELSE IF outcome.data.kind # "full" THEN
    SendPhotoCatch(ThrownError("TypeError", "Cannot read properties of undefined"))
  ELSE
    Returned(Response(200, SendPhotoHeaders,
      [success |-> Bool(TRUE),
       message |-> Str(IF call.kind = "json" THEN "Photo sent successfully (by URL)"
                       ELSE "Photo sent successfully (by base64 upload)"),
       messageId |-> outcome.data.message_id,
       chatId |-> outcome.data.chat_id,
       timestamp |-> Timestamp]))

SendPhotoHandler ==
  /\ pc = "idle"
  /\ \E ev \in SendPhotoEvents, e \in Envs :
       LET r == SendPhotoRun(ev, e)
       IN  /\ variant' = "urlBase64"
           /\ event' = ev
           /\ env' = e
           /\ pc' = r.next
           /\ outbound' = r.calls
           /\ response' = r.response
  /\ UNCHANGED <<parserVars, settled>>

SendPhotoResume ==
  /\ pc = "awaiting"
  /\ variant = "urlBase64"
  /\ \E outcome \in Outcomes :
       LET r == SendPhotoSettle(outbound[Len(outbound)], outcome)
       IN  /\ settled' = outcome
           /\ pc' = r.next
           /\ outbound' = outbound \o r.calls
           /\ response' = r.response
  /\ UNCHANGED <<variant, event, env>>
  /\ UNCHANGED parserVars

-----------------------------------------------------------------------------
(* Raw-body handler: src/unnamed/part_000 *)

UploadHeaders ==
  [AccessControlAllowOrigin |-> "*",
   AccessControlAllowMethods |-> "POST, OPTIONS",
   AccessControlAllowHeaders |-> "Content-Type, Authorization",
   ContentType |-> "application/json"]

\* event.queryStringParameters: null, or the parameters given
NoQuery == [present |-> FALSE, botToken |-> Undef, chatId |-> Undef]
Queries ==
  {NoQuery} \cup
  { [present |-> TRUE, botToken |-> b, chatId |-> c] :
      b \in BotTokens, c \in ChatIds }

\* event.body: absent, or the text Netlify hands over
NoText == [present |-> FALSE, chars |-> <<>>]
RawBodies ==
  { NoText, [present |-> TRUE, chars |-> <<>>],
    [present |-> TRUE, chars |-> <<"!", "!">>],
    [present |-> TRUE, chars |-> <<"Q", "U", "J", "D">>] }

RawEvents ==
  [httpMethod : Methods, queryStringParameters : Queries,
   isBase64Encoded : BOOLEAN, body : RawBodies]

\* event.isBase64Encoded ? Buffer.from(body || "", "base64")
\*                        : Buffer.from(body || "", "utf8")
RawFileBuffer(ev) ==
  LET text == IF ev.body.present THEN ev.body.chars ELSE <<>>
  IN  IF ev.isBase64Encoded THEN Base64Decode(text) ELSE Utf8Encode(text)

RawValidate(botToken, chatId, buffer) ==
  IF ~Truthy(botToken) THEN "botToken"
  ELSE IF ~Truthy(chatId) THEN "chatId"
  ELSE IF Len(buffer) = 0 THEN "image"
  ELSE "ok"

\* the catch block
RawCatch(err) ==
  LET status == IF err.hasResponse /\ err.status # 0 THEN err.status ELSE 500
      described == IF err.hasResponse /\ err.data.t \notin {"null", "undefined"}
                   THEN err.data.description ELSE Undef
      desc == Or(Or(described, Str(err.message)), Str("Internal error"))
  IN  Returned(Response(status, UploadHeaders,
                        [ok |-> Bool(FALSE), error |-> desc]))

\* exports.handler, from its entry to its first await or return
RawRun(ev, e) ==
  IF ev.httpMethod = "OPTIONS" THEN
    Returned(Response(200, UploadHeaders, [ok |-> Bool(TRUE)]))
  ELSE IF ev.httpMethod # "POST" THEN
    Returned(Response(405, UploadHeaders,
                      [ok |-> Bool(FALSE), error |-> Str("Only POST allowed")]))
  ELSE
    LET qs == ev.queryStringParameters
        botToken == Or(qs.botToken, e.BOT_TOKEN)
        chatId == Or(qs.chatId, e.CHAT_ID)
        buffer == RawFileBuffer(ev)
        check == RawValidate(botToken, chatId, buffer)
    IN  CASE check = "botToken" ->
               Returned(Response(400, UploadHeaders,
                 [ok |-> Bool(FALSE), error |-> Str("botToken is required")]))
          [] check = "chatId" ->
               Returned(Response(400, UploadHeaders,
                 [ok |-> Bool(FALSE), error |-> Str("chatId is required")]))
          [] check = "image" ->
               Returned(Response(400, UploadHeaders,
                 [ok |-> Bool(FALSE), error |-> Str("Empty file body")]))
          [] OTHER ->
               Awaiting(FormCall(TelegramApiUrl(botToken),
                          <<FormField("chat_id", JSString(chatId)),
                            FormFile("photo", buffer, "chart.png", "image/png")>>,
                          UploadTimeout))

\* resp.data?.result?.message_id
OptionalMessageId(data) == IF data.kind = "noResult" THEN Undef ELSE data.message_id

\* exports.handler after the await
RawSettle(outcome) ==
  IF ~outcome.ok THEN RawCatch(outcome.error)
  ELSE Returned(Response(200, UploadHeaders,
         [ok |-> Bool(TRUE), messageId |-> OptionalMessageId(outcome.data)]))

RawHandler ==
  /\ pc = "idle"
  /\ \E ev \in RawEvents, e \in Envs :
       LET r == RawRun(ev, e)
       IN  /\ variant' = "raw"
           /\ event' = ev
           /\ env' = e
           /\ pc' = r.next
           /\ outbound' = r.calls
           /\ response' = r.response
  /\ UNCHANGED <<parserVars, settled>>

RawResume ==
  /\ pc = "awaiting"
  /\ variant = "raw"
  /\ \E outcome \in Outcomes :
       LET r == RawSettle(outcome)
       IN  /\ settled' = outcome
           /\ pc' = r.next
           /\ outbound' = outbound \o r.calls
           /\ response' = r.response
  /\ UNCHANGED <<variant, event, env>>
  /\ UNCHANGED parserVars

-----------------------------------------------------------------------------
(* Multipart handler: src/unnamed/part_001 *)

MultipartType == "multipart/form-data; boundary=X"

\* contentType.includes("multipart/form-data")
IncludesMultipart(contentType) == contentType.s = MultipartType

\* event.headers["content-type"] and event.headers["Content-Type"]
HeaderSets ==
  { [lower |-> l, upper |-> u] :
      l \in {Undef, Str(MultipartType)}, u \in {Undef, Str("application/json")} }

MultipartEvents == [httpMethod : Methods, headers : HeaderSets]

FieldValues == [botToken |-> Str("T"), chatId |-> Str("123")]

PartNames == {"photo", "avatar"}

\* the info busboy passes with a file part
FileInfos ==
  { [filename |-> Undef, mimeType |-> Undef],
    [filename |-> Str("a.jpg"), mimeType |-> Str("image/jpeg")] }

NoBuffer == [isNull |-> TRUE, bytes |-> <<>>]

\* the k-th chunk of the i-th file part of the body
Chunk(i, k) == <<16 * i + k>>

RECURSIVE BufferConcat(_)
BufferConcat(chunks) ==
  IF chunks = <<>> THEN <<>>
  ELSE Head(chunks) \o BufferConcat(Tail(chunks))

MultipartValidate(botToken, chatId, buffer) ==
  IF ~Truthy(botToken) THEN "botToken"
  ELSE IF ~Truthy(chatId) THEN "chatId"
  ELSE IF buffer.isNull \/ Len(buffer.bytes) = 0 THEN "image"
  ELSE "ok"

\* the catch block
MultipartCatch(err) ==
  LET status == IF err.hasResponse /\ err.status # 0 THEN err.status ELSE 500
      described == IF err.hasResponse /\ err.data.t \notin {"null", "undefined"}
                   THEN err.data.description ELSE Undef
      desc == Or(Or(described, Str(err.message)), Str("Internal error"))
  IN  Returned(Response(status, UploadHeaders,
                        [ok |-> Bool(FALSE), error |-> desc]))

\* exports.handler, from the resolution of parseMultipart to its await or return
MultipartSubmit(parsed, e) ==
  LET botToken == Or(parsed.fields.botToken, e.BOT_TOKEN)
      chatId == Or(parsed.fields.chatId, e.CHAT_ID)
      check == MultipartValidate(botToken, chatId, parsed.fileBuffer)
  IN  CASE check = "botToken" ->
             Returned(Response(400, UploadHeaders,
               [ok |-> Bool(FALSE), error |-> Str("botToken is required")]))
        [] check = "chatId" ->
             Returned(Response(400, UploadHeaders,
               [ok |-> Bool(FALSE), error |-> Str("chatId is required")]))
        [] check = "image" ->
             Returned(Response(400, UploadHeaders,
               [ok |-> Bool(FALSE), error |-> Str("photo file is required")]))
        [] OTHER ->
             Awaiting(FormCall(TelegramApiUrl(botToken),
                        <<FormField("chat_id", JSString(chatId)),
                          FormFile("photo", parsed.fileBuffer.bytes,
                                   JSString(parsed.filename),
                                   JSString(parsed.mimeType))>>,
                        UploadTimeout))

\* exports.handler after the await
MultipartSettle(outcome) ==
  IF ~outcome.ok THEN MultipartCatch(outcome.error)
  ELSE Returned(Response(200, UploadHeaders,
         [ok |-> Bool(TRUE), messageId |-> OptionalMessageId(outcome.data)]))

\* exports.handler up to parseMultipart handing the body to busboy
MultipartHandler ==
  /\ pc = "idle"
  /\ \E ev \in MultipartEvents, e \in Envs :
       LET contentType == Or(ev.headers.lower, ev.headers.upper)
           r == IF ev.httpMethod = "OPTIONS" THEN
                  Returned(Response(200, UploadHeaders, [ok |-> Bool(TRUE)]))
                ELSE IF ev.httpMethod # "POST" THEN
                  Returned(Response(405, UploadHeaders,
                    [ok |-> Bool(FALSE), error |-> Str("Only POST allowed")]))
                ELSE IF ~Truthy(contentType) \/ ~IncludesMultipart(contentType) THEN
                  MultipartCatch(ThrownError("Error", "Expected multipart/form-data"))
                ELSE [next |-> "parsing", response |-> NoResponse, calls |-> <<>>]
       IN  /\ parse' = IF r.next = "parsing" THEN "pending"
                       ELSE IF ev.httpMethod = "POST" THEN "rejected" ELSE "none"
           /\ variant' = "multipart"
           /\ event' = ev
           /\ env' = e
           /\ pc' = r.next
           /\ outbound' = r.calls
           /\ response' = r.response
  /\ fields' = [botToken |-> Undef, chatId |-> Undef]
  /\ fileBuffer' = NoBuffer
  /\ filename' = Str("photo.png")
  /\ mimeType' = Str("image/png")
  /\ parts' = <<>>
  /\ UNCHANGED settled

\* busboy.on("field")
OnField ==
  /\ pc = "parsing"
  /\ \E name \in DOMAIN FieldValues :
       /\ fields[name] = Undef
       /\ fields' = [fields EXCEPT ![name] = FieldValues[name]]
  /\ UNCHANGED <<pc, variant, event, env, outbound, response, fileBuffer,
                 filename, mimeType, parts, parse, settled>>

\* mutant: every file part is buffered, whatever its name
KeepsAnyPart(name) == TRUE

\* does the file handler keep the part called `name`
KeepsPart(name) == name = "photo"

\* busboy.on("file")
OnFile ==
  /\ pc = "parsing"
  /\ Len(parts) < MaxParts
  /\ \E name \in PartNames, info \in FileInfos :
       /\ parts' = Append(parts, [name |-> name, kept |-> KeepsPart(name),
                                  chunks |-> <<>>, emitted |-> 0, ended |-> FALSE])
       /\ IF KeepsPart(name)
          THEN /\ filename' = Or(info.filename, filename)
               /\ mimeType' = Or(info.mimeType, mimeType)
          ELSE UNCHANGED <<filename, mimeType>>
  /\ UNCHANGED <<pc, variant, event, env, outbound, response, fields, fileBuffer,
                 parse, settled>>

\* file.on("data") of a kept part; a drained part's data is discarded
OnData ==
  /\ pc = "parsing"
  /\ \E i \in 1..Len(parts) :
       /\ ~parts[i].ended
       /\ parts[i].emitted < MaxChunks
       /\ parts' = [parts EXCEPT ![i].emitted = @ + 1,
                                 ![i].chunks = IF parts[i].kept
                                               THEN Append(@, Chunk(i, parts[i].emitted + 1))
                                               ELSE @]
  /\ UNCHANGED <<pc, variant, event, env, outbound, response, fields, fileBuffer,
                 filename, mimeType, parse, settled>>

\* file.on("end") of a kept part; a drained part just ends
OnEnd ==
  /\ pc = "parsing"
  /\ \E i \in 1..Len(parts) :
       /\ ~parts[i].ended
       /\ parts' = [parts EXCEPT ![i].ended = TRUE]
       /\ fileBuffer' = IF parts[i].kept
                        THEN [isNull |-> FALSE, bytes |-> BufferConcat(parts[i].chunks)]
                        ELSE fileBuffer
  /\ UNCHANGED <<pc, variant, event, env, outbound, response, fields,
                 filename, mimeType, parse, settled>>

\* busboy.on("error", reject): the body is not a well-formed multipart body
OnError ==
  /\ pc = "parsing"
  /\ LET r == MultipartCatch(ThrownError("Error", "Unexpected end of form"))
     IN  /\ pc' = r.next
         /\ response' = r.response
  /\ parse' = "rejected"
  /\ UNCHANGED <<variant, event, env, outbound, settled>>
  /\ UNCHANGED <<fields, fileBuffer, filename, mimeType, parts>>

\* busboy.on("finish"): every file part has ended; the handler goes on
OnFinish ==
  /\ pc = "parsing"
  /\ \A i \in 1..Len(parts) : parts[i].ended
  /\ LET r == MultipartSubmit([fields |-> fields, fileBuffer |-> fileBuffer,
                               filename |-> filename, mimeType |-> mimeType], env)
     IN  /\ pc' = r.next
         /\ outbound' = outbound \o r.calls
         /\ response' = r.response
  /\ parse' = "resolved"
  /\ UNCHANGED <<variant, event, env, settled>>
  /\ UNCHANGED <<fields, fileBuffer, filename, mimeType, parts>>

MultipartResume ==
  /\ pc = "awaiting"
  /\ variant = "multipart"
  /\ \E outcome \in Outcomes :
       LET r == MultipartSettle(outcome)
       IN  /\ settled' = outcome
           /\ pc' = r.next
           /\ outbound' = outbound \o r.calls
           /\ response' = r.response
  /\ UNCHANGED <<variant, event, env>>
  /\ UNCHANGED parserVars

-----------------------------------------------------------------------------
NoEvent == [httpMethod |-> "", body |-> [text |-> "absent", obj |-> EmptyBody]]

Init ==
  /\ pc = "idle"
  /\ variant = "none"
  /\ event = NoEvent
  /\ env = [BOT_TOKEN |-> Undef, CHAT_ID |-> Undef]
  /\ outbound = <<>>
  /\ response = NoResponse
  /\ fields = [botToken |-> Undef, chatId |-> Undef]
  /\ fileBuffer = NoBuffer
  /\ filename = Str("photo.png")
  /\ mimeType = Str("image/png")
  /\ parts = <<>>
  /\ parse = "none"
  /\ settled = NoOutcome

Next ==
  \/ SendPhotoHandler
  \/ SendPhotoResume
  \/ RawHandler
  \/ RawResume
  \/ MultipartHandler
  \/ OnField
  \/ OnFile
  \/ OnData
  \/ OnEnd
  \/ OnError
  \/ OnFinish
  \/ MultipartResume

Spec == Init /\ [][Next]_vars

-----------------------------------------------------------------------------
(* What the request of the invocation asks for *)

Finished == pc \in {"awaiting", "done", "crashed"}

IsPost == event.httpMethod = "POST"

\* the transport decoding succeeded: the JSON body is absent or an object,
\* parseMultipart resolved, a raw body needs no decoding
Decoded ==
  CASE variant = "urlBase64" -> event.body.text \in {"absent", "object"}
    [] variant = "multipart" -> parse = "resolved"
    [] OTHER -> TRUE

GivenBotToken ==
  CASE variant = "urlBase64" -> event.body.obj.botToken
    [] variant = "raw" -> event.queryStringParameters.botToken
    [] OTHER -> fields.botToken

GivenChatId ==
  CASE variant = "urlBase64" -> event.body.obj.chatId
    [] variant = "raw" -> event.queryStringParameters.chatId
    [] OTHER -> fields.chatId

HasBotToken == Truthy(GivenBotToken) \/ Truthy(env.BOT_TOKEN)

HasChatId == Truthy(GivenChatId) \/ Truthy(env.CHAT_ID)

GivenUrl ==
  IF Truthy(event.body.obj.photoUrl) THEN event.body.obj.photoUrl
  ELSE event.body.obj.photo

HasImage ==
  CASE variant = "urlBase64" ->
         Truthy(GivenUrl) \/ Base64Truthy(event.body.obj.photoBase64)
    [] variant = "raw" -> RawFileBuffer(event) # <<>>
    [] OTHER -> ~fileBuffer.isNull /\ fileBuffer.bytes # <<>>

\* the first validation step the request fails
FailedStep ==
  IF ~HasBotToken THEN "botToken"
  ELSE IF ~HasChatId THEN "chatId"
  ELSE IF ~HasImage THEN "image"
  ELSE "none"

MissingBotTokenErrors ==
  { Str("Bot token is required (either in request body or BOT_TOKEN environment variable)"),
    Str("botToken is required") }

MissingChatIdErrors ==
  { Str("Chat ID is required (either in request body or CHAT_ID environment variable)"),
    Str("chatId is required") }

MissingImageErrors ==
  { Str("Either photoUrl (recommended) or photoBase64 is required"),
    Str("Empty file body"), Str("photo file is required") }

RejectedWith(errors) ==
  /\ pc = "done"
  /\ outbound = <<>>
  /\ response.statusCode = 400
  /\ "error" \in DOMAIN response.body
  /\ response.body.error \in errors

ValidationOrder ==
  /\ FailedStep = "botToken" => RejectedWith(MissingBotTokenErrors)
  /\ FailedStep = "chatId" => RejectedWith(MissingChatIdErrors)
  /\ FailedStep = "image" => RejectedWith(MissingImageErrors)
  /\ outbound # <<>> => FailedStep = "none"

\* C1 (as stated): in every handler, a POST request is validated in the order
\* botToken, chatId, image, each failure answered with status 400 and its own
\* error whatever else is missing or invalid, and only a request that passes
\* all three reaches the upstream.
C1_Original == (Finished /\ IsPost) => ValidationOrder

\* C1 (amended): the same order holds for every POST request whose transport
\* decoding succeeded (the JSON body is absent or an object; the multipart
\* parser resolved).
C1_ValidationOrder == (Finished /\ IsPost /\ Decoded) => ValidationOrder

\* a request missing the chat id and the image is answered for the chat id
C1_Witness ==
  /\ pc = "done" /\ IsPost /\ Decoded
  /\ HasBotToken /\ ~HasChatId /\ ~HasImage
  /\ response.body.error \in MissingChatIdErrors

-----------------------------------------------------------------------------
UrlRequest ==
  /\ variant = "urlBase64"
  /\ Finished
  /\ IsPost
  /\ event.body.text = "object"

\* C2: in the URL/Base64 handler, a POST with resolved botToken and chatId whose
\* body holds both a photoUrl (or its alias photo) and a photoBase64 makes one
\* outbound call, the JSON submission with photo = the URL; no multipart
\* submission is made and no decoded bytes are uploaded.
C2_UrlTakesPrecedence ==
  (/\ UrlRequest
   /\ HasBotToken /\ HasChatId
   /\ Truthy(GivenUrl)
   /\ event.body.obj.photoBase64.t # "undefined")
  => /\ Len(outbound) = 1
     /\ outbound[1].kind = "json"
     /\ outbound[1].form = <<>>
     /\ outbound[1].payload.photo = GivenUrl

C2_Witness ==
  /\ UrlRequest /\ pc = "done"
  /\ Truthy(event.body.obj.photo) /\ ~Truthy(event.body.obj.photoUrl)
  /\ event.body.obj.photoBase64 = Base64Text(<<"Q", "U", "J", "D">>)
  /\ Len(outbound) = 1
  /\ outbound[1].payload.photo = event.body.obj.photo
  /\ response.statusCode = 200

-----------------------------------------------------------------------------
JsonCalls == {i \in 1..Len(outbound) : outbound[i].kind = "json"}

-----------------------------------------------------------------------------
BlankStrings == {"", " ", "  "}

IsBlank(v) == v.t = "string" /\ v.s \in BlankStrings

\* the outbound call carries the field called `key`
Carries(call, key) ==
  IF call.kind = "json" THEN key \in DOMAIN call.payload
  ELSE \E j \in 1..Len(call.form) : call.form[j].name = key

\* C4: a caption or threadId that is an empty or whitespace-only string is
\* treated as absent: neither the JSON call nor the multipart call carries a
\* caption / message_thread_id field for it.
C4_BlankOptionalsOmitted ==
  variant = "urlBase64" =>
    \A i \in 1..Len(outbound) :
      /\ IsBlank(event.body.obj.caption) => ~Carries(outbound[i], "caption")
      /\ IsBlank(event.body.obj.threadId) =>
           ~Carries(outbound[i], "message_thread_id")

-----------------------------------------------------------------------------
UpstreamRejected == ~settled.ok /\ settled.error.hasResponse

NoUpstreamResponse ==
  ~settled.ok /\ ~settled.error.hasResponse /\ settled.error.hasRequest

\* the message the claim gives for an upstream error response
MappedMessage(status, description) ==
  IF status = 400 THEN "Bad Request: " \o JSString(description)
  ELSE IF status = 401 THEN "Unauthorized: Invalid bot token"
  ELSE IF status = 403 THEN "Forbidden: Bot was blocked by user or kicked from chat"
  ELSE IF status = 404 THEN "Not Found: Chat not found"
  ELSE IF description.t = "string" THEN description.s
  ELSE "Telegram API error"

\* C5: in the URL/Base64 handler an upstream error response with status S is
\* answered with statusCode S, success = false and the mapped message (400: Bad
\* Request + description, 401, 403, 404: fixed texts, otherwise the description
\* or "Telegram API error").
C5_UpstreamErrorMapping ==
  (variant = "urlBase64" /\ UpstreamRejected) =>
    /\ pc = "done"
    /\ response.statusCode = settled.error.status
    /\ response.body.success = Bool(FALSE)
    /\ (settled.error.status # 400 \/ settled.error.data.description.t = "string")
         => response.body.error =
              Str(MappedMessage(settled.error.status, settled.error.data.description))

-----------------------------------------------------------------------------
NetworkErrorText == Str("Network error: Unable to reach Telegram API")

-----------------------------------------------------------------------------
CorsHeaders == {SendPhotoHeaders, UploadHeaders}

\* C7: every invocation ends in a structured response (explicit statusCode,
\* the CORS headers, a JSON body); no exception escapes the handler.
C7_AlwaysStructuredResponse ==
  /\ pc # "crashed"
  /\ pc = "done" =>
       /\ response.statusCode \in 200..599
       /\ response.headers \in CorsHeaders

-----------------------------------------------------------------------------
IsSuccessResponse ==
  /\ pc = "done"
  /\ response.statusCode = 200
  /\ "messageId" \in DOMAIN response.body

\* C8: one invocation makes at most one outbound call and never repeats it; it
\* makes none for OPTIONS, for a non-POST method and for a request that fails
\* validation; a success response (200 with a messageId) is returned only after
\* that one call returned successfully.
C8_SingleAttempt ==
  /\ Len(outbound) <= 1
  /\ (Finished /\ (~IsPost \/ FailedStep # "none")) => outbound = <<>>
  /\ pc \in {"idle", "parsing"} => outbound = <<>>
  /\ pc = "awaiting" => settled = NoOutcome
  /\ IsSuccessResponse => (Len(outbound) = 1 /\ settled.ok)

C8_Witness ==
  /\ pc = "done"
  /\ ~settled.ok
  /\ settled.error.hasResponse
  /\ Len(outbound) = 1

-----------------------------------------------------------------------------
PhotoParts == {i \in 1..Len(parts) : parts[i].name = "photo"}

\* every chunk busboy delivered for file part i, in arrival order
Delivered(i) == [k \in 1..parts[i].emitted |-> 16 * i + k]

\* the file part a byte of the body belongs to
PartOf(byte) == byte \div 16

\* C9: the multipart handler submits only after the parser's finish event; the
\* buffer it submits is the complete concatenation, in arrival order, of the
\* data chunks of a file part named photo, and holds no chunk of a file part
\* with another name.
C9_CompletePhotoBuffer ==
  (variant = "multipart" /\ outbound # <<>>) =>
    LET sent == outbound[1].form[2].bytes
    IN  /\ parse = "resolved"
        /\ \A i \in 1..Len(parts) : parts[i].ended
        /\ \E i \in PhotoParts : sent = Delivered(i)
        /\ \A j \in 1..Len(sent) : PartOf(sent[j]) \in PhotoParts

C9_Witness ==
  /\ variant = "multipart"
  /\ outbound # <<>>
  /\ Len(parts) = 2
  /\ parts[1].name = "avatar" /\ parts[1].emitted > 0
  /\ parts[2].name = "photo" /\ parts[2].emitted = 2
  /\ outbound[1].form[2].bytes = <<33, 34>>

-----------------------------------------------------------------------------
NumericStrings == {"7"}

ThreadIdGiven(v) ==
  v.t = "number" \/ (v.t = "string" /\ v.s \in NumericStrings)

FormValue(call, key) ==
  LET j == CHOOSE x \in 1..Len(call.form) : call.form[x].name = key
  IN  call.form[j].value

\* C10: in the URL/Base64 handler a threadId given as a JSON number or as a
\* numeric string reaches the upstream as a number on the JSON path and as its
\* string encoding on the multipart path.
C10_ThreadIdTyped ==
  (variant = "urlBase64" /\ outbound # <<>>
   /\ ThreadIdGiven(event.body.obj.threadId)) =>
    LET call == outbound[1]
        threadId == event.body.obj.threadId
    IN  /\ Carries(call, "message_thread_id")
        /\ call.kind = "json" => call.payload.message_thread_id.t = "number"
        /\ call.kind = "multipart" =>
             FormValue(call, "message_thread_id") = JSString(threadId)

====
